---- MODULE Spec2Model ----
(***************************************************************************)
(* Model of the image tamper detector: the detection engine of             *)
(* src/src/utils/imageAnalysis.ts (error level analysis, copy-move         *)
(* detection, confidence aggregation) and the analysis pipeline of         *)
(* src/src/App.tsx (analyzeImage, handleAnalysis, the two drop zones).     *)
(*                                                                         *)
(* JavaScript numbers are IEEE-754 binary64.  The engine's arithmetic is   *)
(* modelled bit-exactly: a Number is a record [neg, m, e] standing for     *)
(* (-1)^neg * m * 2^e, where m is a natural number of at most 53 bits kept *)
(* as a little-endian sequence of 15-bit limbs (TLC's integers are 32 bit) *)
(* and is odd unless the value is zero.  Every operation computes the      *)
(* exact result and rounds it to nearest, ties to even.  The values of the *)
(* engine stay far inside the exponent range, so overflow, subnormals, NaN *)
(* and the sign of zero are not modelled.                                  *)
(***************************************************************************)
EXTENDS Integers, Sequences, FiniteSets, TLC

----------------------------------------------------------------------------
(* Natural numbers of arbitrary size: little-endian limbs, no high zeros.  *)

LimbBits == 15
Base == 2^LimbBits

RECURSIVE BigTrim(_)
BigTrim(a) ==
    IF a = <<>> THEN a
    ELSE IF a[Len(a)] = 0 THEN BigTrim(SubSeq(a, 1, Len(a) - 1)) ELSE a

RECURSIVE BigFromInt(_)
BigFromInt(n) == IF n = 0 THEN <<>> ELSE <<n % Base>> \o BigFromInt(n \div Base)

Limb(a, i) == IF i <= Len(a) THEN a[i] ELSE 0

RECURSIVE BigAddFrom(_, _, _, _)
BigAddFrom(a, b, i, c) ==
    IF i > Len(a) /\ i > Len(b)
    THEN (IF c = 0 THEN <<>> ELSE <<c>>)
    ELSE LET s == Limb(a, i) + Limb(b, i) + c
         IN  <<s % Base>> \o BigAddFrom(a, b, i + 1, s \div Base)

BigAdd(a, b) == BigAddFrom(a, b, 1, 0)

RECURSIVE BigSubFrom(_, _, _, _)
BigSubFrom(a, b, i, c) ==
    IF i > Len(a) THEN <<>>
    ELSE LET d == Limb(a, i) - Limb(b, i) - c
         IN  IF d < 0 THEN <<d + Base>> \o BigSubFrom(a, b, i + 1, 1)
                      ELSE <<d>> \o BigSubFrom(a, b, i + 1, 0)

\* a - b, for a >= b
BigSub(a, b) == BigTrim(BigSubFrom(a, b, 1, 0))

RECURSIVE BigCmpFrom(_, _, _)
BigCmpFrom(a, b, i) ==
    IF i = 0 THEN 0
    ELSE IF a[i] < b[i] THEN -1
    ELSE IF a[i] > b[i] THEN 1
    ELSE BigCmpFrom(a, b, i - 1)

\* -1, 0 or 1 as a < b, a = b or a > b
BigCmp(a, b) ==
    IF Len(a) < Len(b) THEN -1
    ELSE IF Len(a) > Len(b) THEN 1
    ELSE BigCmpFrom(a, b, Len(a))

RECURSIVE BigMulSmallFrom(_, _, _, _)
BigMulSmallFrom(a, d, i, c) ==
    IF i > Len(a) THEN (IF c = 0 THEN <<>> ELSE <<c>>)
    ELSE LET p == a[i] * d + c
         IN  <<p % Base>> \o BigMulSmallFrom(a, d, i + 1, p \div Base)

\* a * d, for 0 <= d < Base
BigMulSmall(a, d) == BigTrim(BigMulSmallFrom(a, d, 1, 0))

RECURSIVE BigMul(_, _)
BigMul(a, b) ==
    IF b = <<>> \/ a = <<>> THEN <<>>
    ELSE LET rest == BigMul(a, Tail(b))
         IN  BigAdd(BigMulSmall(a, b[1]),
                    IF rest = <<>> THEN <<>> ELSE <<0>> \o rest)

RECURSIVE BigDivSmallFrom(_, _, _, _)
BigDivSmallFrom(a, d, i, r) ==
    IF i = 0 THEN [q |-> <<>>, r |-> r]
    ELSE LET cur  == r * Base + a[i]
             rest == BigDivSmallFrom(a, d, i - 1, cur % d)
         IN  [q |-> rest.q \o <<cur \div d>>, r |-> rest.r]

\* quotient and remainder of a by d, for 0 < d <= Base
BigDivSmall(a, d) ==
    LET res == BigDivSmallFrom(a, d, Len(a), 0)
    IN  [q |-> BigTrim(res.q), r |-> res.r]

RECURSIVE SmallBitLen(_)
SmallBitLen(n) == IF n = 0 THEN 0 ELSE 1 + SmallBitLen(n \div 2)

BitLen(a) == IF a = <<>> THEN 0 ELSE LimbBits * (Len(a) - 1) + SmallBitLen(a[Len(a)])

Zeros(k) == [i \in 1..k |-> 0]

\* a * 2^k
BigShl(a, k) ==
    IF a = <<>> THEN <<>>
    ELSE Zeros(k \div LimbBits) \o BigMulSmall(a, 2^(k % LimbBits))

\* floor(a / 2^k)
BigShr(a, k) ==
    IF k \div LimbBits >= Len(a) THEN <<>>
    ELSE BigDivSmall(SubSeq(a, k \div LimbBits + 1, Len(a)), 2^(k % LimbBits)).q

\* bit i of a (bit 0 is the lowest)
BigBit(a, i) == (Limb(a, i \div LimbBits + 1) \div 2^(i % LimbBits)) % 2

\* whether the k lowest bits of a are all zero
BigLowZero(a, k) == BigShl(BigShr(a, k), k) = a

RECURSIVE BigTrailingZeros(_, _)
BigTrailingZeros(a, i) == IF BigBit(a, i) = 1 THEN i ELSE BigTrailingZeros(a, i + 1)

----------------------------------------------------------------------------
(* IEEE-754 binary64 values and operations.                                *)

MantissaBits == 53

FZero == [neg |-> FALSE, m |-> <<>>, e |-> 0]

\* the canonical record of (-1)^neg * m * 2^e: m odd, or zero
FCanon(neg, m, e) ==
    IF m = <<>> THEN FZero
    ELSE LET tz == BigTrailingZeros(m, 0)
         IN  [neg |-> neg, m |-> BigShr(m, tz), e |-> e + tz]

\* (-1)^neg * (m + a fraction in (0,1) when sticky) * 2^e, rounded to the
\* nearest binary64, ties to even.  With sticky, m has more than 53 bits.
FRound(neg, m, e, sticky) ==
    IF BitLen(m) <= MantissaBits THEN FCanon(neg, m, e)
    ELSE LET s    == BitLen(m) - MantissaBits
             q    == BigShr(m, s)
             half == BigBit(m, s - 1) = 1
             rest == sticky \/ ~BigLowZero(m, s - 1)
             up   == half /\ (rest \/ BigBit(q, 0) = 1)
         IN  FCanon(neg, IF up THEN BigAdd(q, <<1>>) ELSE q, e + s)

\* the Number of a non-negative integer below 2^31 (exact)
FromInt(n) == FCanon(FALSE, BigFromInt(n), 0)

FNeg(a) == IF a.m = <<>> THEN a ELSE [a EXCEPT !.neg = ~a.neg]

\* the exact sum a + b as an unrounded triple
FExactAdd(a, b) ==
    LET e  == IF a.e < b.e THEN a.e ELSE b.e
        ma == BigShl(a.m, a.e - e)
        mb == BigShl(b.m, b.e - e)
    IN  IF a.neg = b.neg THEN [neg |-> a.neg, m |-> BigAdd(ma, mb), e |-> e]
        ELSE IF BigCmp(ma, mb) >= 0 THEN [neg |-> a.neg, m |-> BigSub(ma, mb), e |-> e]
        ELSE [neg |-> b.neg, m |-> BigSub(mb, ma), e |-> e]

\* a + b
FAdd(a, b) ==
    IF a.m = <<>> THEN b
    ELSE IF b.m = <<>> THEN a
    ELSE LET s == FExactAdd(a, b) IN FRound(s.neg, s.m, s.e, FALSE)

\* a - b
FSub(a, b) == FAdd(a, FNeg(b))

\* a * b
FMul(a, b) ==
    IF a.m = <<>> \/ b.m = <<>> THEN FZero
    ELSE FRound(a.neg # b.neg, BigMul(a.m, b.m), a.e + b.e, FALSE)

\* enough quotient bits for one rounding: the quotient of m * 2^DivShift by
\* a divisor below Base has more than MantissaBits + 1 bits
DivShift == MantissaBits + LimbBits + 2

\* a / n for an integer 0 < n < Base
FDivInt(a, n) ==
    IF a.m = <<>> THEN FZero
    ELSE LET d == BigDivSmall(BigShl(a.m, DivShift), n)
         IN  FRound(a.neg, d.q, a.e - DivShift, d.r # 0)

\* a < b
FLess(a, b) ==
    LET s == FExactAdd(a, FNeg(b)) IN s.m # <<>> /\ s.neg

\* a <= b
FLeq(a, b) == ~FLess(b, a)

\* Math.min(a, b), Math.max(a, b)
FMin(a, b) == IF FLess(b, a) THEN b ELSE a
FMax(a, b) == IF FLess(a, b) THEN b ELSE a

\* a decimal literal p/10 or p/100 of the source is the binary64 nearest to it
FOne == FromInt(1)
FHundred == FromInt(100)
FTenth == FDivInt(FromInt(1), 10)
FSevenTenths == FDivInt(FromInt(7), 10)
FThreeTenths == FDivInt(FromInt(3), 10)


----------------------------------------------------------------------------
(* Pictures.  A picture is constant on every tile of the 32-pixel grid     *)
(* (content names the tiling) but for the first pixels of a tile, in row   *)
(* order, whose red channel may be one lower, so a 32 x 32 block cut on    *)
(* that grid is kept as its colour and the number of those pixels.  The    *)
(* recompression                                                           *)
(* round trip (canvas.toDataURL at the given quality, decoded again) is    *)
(* outside the repository: err names the error it leaves, as the summed    *)
(* R, G, B absolute difference of one pixel: constant on every cell of the *)
(* 16-pixel grid, or (kind "dot") in the first pixel of every cell only.   *)

Abs(n) == IF n < 0 THEN -n ELSE n
Min(a, b) == IF a < b THEN a ELSE b

\* the colour <<R, G, B>> of grid tile (bx, by) of a picture
TileColor(content, bx, by) ==
    CASE content = "solid"    -> <<100, 100, 100>>
      [] content = "gradient" -> <<10 * bx, 40 * by, 7>>
      [] content = "near"     -> <<100 + 2 * ((bx + by) % 3), 100, 100>>
      [] content = "edge"     -> <<100 + 5 * (bx % 2), 100, 100>>
      [] content = "speck"    -> <<100 + 5 * by, 100, 100>>

\* the number of leading pixels of grid tile (bx, by) whose red channel is
\* one below the colour of the tile
TileDents(content, bx, by) ==
    IF content = "speck" /\ bx = 2 /\ by = 1 THEN 1 ELSE 0

Contents == {"solid", "gradient", "near", "edge", "speck"}

\* the recompression error of one pixel of grid cell (cx, cy), of its
\* first pixel for the kind "dot"
ErrLevel(err, cx, cy) ==
    IF err.kind = "checker"
    THEN (IF (cx + cy) % 2 = 1 THEN err.level ELSE 0)
    ELSE err.level

\* identity (pixel-identical), errors at and just over the region
\* threshold, a saturating error, a picture with alternating cells, and
\* one with a single wrong pixel in every cell
ErrPatterns ==
    {[kind |-> "uniform", level |-> l] : l \in {0, 27, 28, 765}}
        \cup {[kind |-> "checker", level |-> 90]}
        \cup {[kind |-> "dot", level |-> 765]}

Region(x, y, w, h, c) ==
    [x |-> x, y |-> y, width |-> w, height |-> h, confidence |-> c]

----------------------------------------------------------------------------
(* performErrorLevelAnalysis                                               *)

ElaBlockSize == 16
ElaSaturation == 30

\* Math.ceil(a / b) for integers 0 <= a, 0 < b: the quotient of two small
\* integers never rounds across an integer
CeilDiv(a, b) == IF a % b = 0 THEN a \div b ELSE a \div b + 1

\* mutant of HeatmapRows: Math.floor for Math.ceil
HeatmapRowsFloor(img) == img.height \div ElaBlockSize
HeatmapRows(img) == CeilDiv(img.height, ElaBlockSize)
HeatmapCols(img) == CeilDiv(img.width, ElaBlockSize)

\* the two inner loops over one cell: the pixels inside the picture
ElaPixelCount(img, x, y) ==
    Min(ElaBlockSize, img.height - y) * Min(ElaBlockSize, img.width - x)

ElaDiffSum(img, err, x, y) ==
    IF err.kind = "dot"
    THEN ErrLevel(err, x \div ElaBlockSize, y \div ElaBlockSize)
    ELSE ElaPixelCount(img, x, y)
             * ErrLevel(err, x \div ElaBlockSize, y \div ElaBlockSize)

ElaNormalizedDiff(img, err, x, y) ==
    LET avgDiff == FDivInt(FromInt(ElaDiffSum(img, err, x, y)),
                           ElaPixelCount(img, x, y) * 3)
    IN  FMin(FDivInt(avgDiff, ElaSaturation), FOne)

ElaRegion(x, y, nd) == Region(x, y, ElaBlockSize, ElaBlockSize, nd)

\* the values a loop variable takes: for (v = from; v < extent; v += step)
RECURSIVE LoopValues(_, _, _)
LoopValues(from, extent, step) ==
    IF from < extent THEN <<from>> \o LoopValues(from + step, extent, step) ELSE <<>>

\* the iterations <<x, y>> of two nested loops, y outside, in order
NestedLoop(xs, ys) ==
    [i \in 1..(Len(xs) * Len(ys)) |->
        <<xs[((i - 1) % Len(xs)) + 1], ys[((i - 1) \div Len(xs)) + 1]>>]

\* the iterations of the two block loops
ElaCells(img) ==
    NestedLoop(LoopValues(0, img.width, ElaBlockSize),
               LoopValues(0, img.height, ElaBlockSize))

\* the heatmap store of one iteration, as <<row, column>>
ElaHeatmapIndex(cell) == <<cell[2] \div ElaBlockSize, cell[1] \div ElaBlockSize>>

\* mutant of ElaEmits: >= for >
ElaEmitsAtThreshold(nd) == FLeq(FThreeTenths, nd)

ElaEmits(nd) == FLess(FThreeTenths, nd)

\* the loops: every iteration stores its normalizedDiff in the heatmap
\* (writes logs the stores in order; a store outside the array built at
\* first is left out of heatmap) and pushes a region over the threshold
ElaLoops(img, err) ==
    LET cells  == ElaCells(img)
        done   == [i \in 1..Len(cells) |->
                      [x |-> cells[i][1], y |-> cells[i][2],
                       nd |-> ElaNormalizedDiff(img, err, cells[i][1], cells[i][2])]]
        writes == [i \in 1..Len(cells) |-> ElaHeatmapIndex(cells[i])]
        Last(r, c) == CHOOSE i \in 1..Len(cells) :
                         /\ writes[i] = <<r, c>>
                         /\ \A j \in (i + 1)..Len(cells) : writes[j] # <<r, c>>
        Hot(d) == ElaEmits(d.nd)
        hot    == SelectSeq(done, Hot)
    IN  [regions |-> [i \in 1..Len(hot) |-> ElaRegion(hot[i].x, hot[i].y, hot[i].nd)],
         heatmap |-> [r \in 1..HeatmapRows(img) |-> [c \in 1..HeatmapCols(img) |->
                        IF \E i \in 1..Len(cells) : writes[i] = <<r - 1, c - 1>>
                        THEN done[Last(r - 1, c - 1)].nd
                        ELSE FZero]],
         writes  |-> writes]

\* The round trip fails (the promise of createImageFromDataUrl rejects) when
\* the encoder gives no image: always for a canvas without pixels, whose
\* data URL is "data:,", and when oracleOk is FALSE.
performErrorLevelAnalysis(img, err, oracleOk) ==
    IF img.width = 0 \/ img.height = 0 \/ ~oracleOk
    THEN [status |-> "error"]
    ELSE LET acc == ElaLoops(img, err)
         IN  [status |-> "ok", regions |-> acc.regions,
              heatmap |-> acc.heatmap, writes |-> acc.writes]

----------------------------------------------------------------------------
(* detectCopyMove                                                          *)

CmBlockSize == 32
CmThreshold == 5
ByteMax == 255

\* the iterations of the extraction loops, and the blocks they push
CmOrigins(img) ==
    NestedLoop(LoopValues(0, img.width - CmBlockSize, CmBlockSize),
               LoopValues(0, img.height - CmBlockSize, CmBlockSize))

ExtractBlocks(img) ==
    LET origins == CmOrigins(img)
    IN  [i \in 1..Len(origins) |->
            [x |-> origins[i][1], y |-> origins[i][2],
             data |-> [color |-> TileColor(img.content, origins[i][1] \div CmBlockSize,
                                           origins[i][2] \div CmBlockSize),
                       dents |-> TileDents(img.content, origins[i][1] \div CmBlockSize,
                                           origins[i][2] \div CmBlockSize)]]]

\* the pixels of a block: block.length / 4
CmBlockPixels == CmBlockSize * CmBlockSize

\* the loop of areBlocksSimilar and calculateSimilarityConfidence
PixelDiff(c1, c2) == Abs(c1[1] - c2[1]) + Abs(c1[2] - c2[2]) + Abs(c1[3] - c2[3])

Dented(c) == <<c[1] - 1, c[2], c[3]>>

\* the pixels both blocks have dented, those one of them has, and the rest
BlockDiffSum(d1, d2) ==
    LET lo  == Min(d1.dents, d2.dents)
        hi  == IF d1.dents < d2.dents THEN d2.dents ELSE d1.dents
        mid == IF d1.dents < d2.dents
               THEN PixelDiff(d1.color, Dented(d2.color))
               ELSE PixelDiff(Dented(d1.color), d2.color)
    IN  lo * PixelDiff(Dented(d1.color), Dented(d2.color))
            + (hi - lo) * mid
            + (CmBlockPixels - hi) * PixelDiff(d1.color, d2.color)

\* mutant of areBlocksSimilar: <= for <
areBlocksSimilarAtThreshold(d1, d2, threshold) ==
    FLeq(FDivInt(FromInt(BlockDiffSum(d1, d2)), CmBlockPixels), FromInt(threshold))

areBlocksSimilar(d1, d2, threshold) ==
    FLess(FDivInt(FromInt(BlockDiffSum(d1, d2)), CmBlockPixels), FromInt(threshold))

calculateSimilarityConfidence(d1, d2) ==
    LET avgDiff == FDivInt(FromInt(BlockDiffSum(d1, d2)), CmBlockPixels)
    IN  FMax(FZero, FSub(FOne, FDivInt(avgDiff, ByteMax)))

\* mutant of CmFarApart: >= for >
CmFarApartOrEqual(b1, b2) ==
    (b1.x - b2.x) * (b1.x - b2.x) + (b1.y - b2.y) * (b1.y - b2.y)
        >= (CmBlockSize * 2) * (CmBlockSize * 2)

\* Math.sqrt(dx^2 + dy^2) > blockSize * 2: the square root is monotonic and
\* exact on the square (2 * blockSize)^2, so the squares decide it
CmFarApart(b1, b2) ==
    (b1.x - b2.x) * (b1.x - b2.x) + (b1.y - b2.y) * (b1.y - b2.y)
        > (CmBlockSize * 2) * (CmBlockSize * 2)

\* the iterations <<i, j>> of the comparison loops (indices from 1), in order
RECURSIVE CmPairsFrom(_, _, _)
CmPairsFrom(n, i, j) ==
    IF i > n THEN <<>>
    ELSE IF j > n THEN CmPairsFrom(n, i + 1, i + 2)
    ELSE <<(<<i, j>>)>> \o CmPairsFrom(n, i, j + 1)

CmPairs(n) == CmPairsFrom(n, 1, 2)

CmMatches(b1, b2) ==
    areBlocksSimilar(b1.data, b2.data, CmThreshold) /\ CmFarApart(b1, b2)

CmRegion(b, confidence) == Region(b.x, b.y, CmBlockSize, CmBlockSize, confidence)

\* the comparison loops: every matching pair pushes two regions
CmLoops(blocks) ==
    LET Match(p) == CmMatches(blocks[p[1]], blocks[p[2]])
        hits == SelectSeq(CmPairs(Len(blocks)), Match)
        conf == [k \in 1..Len(hits) |->
                    calculateSimilarityConfidence(blocks[hits[k][1]].data,
                                                  blocks[hits[k][2]].data)]
    IN  [n \in 1..(2 * Len(hits)) |->
            CmRegion(blocks[hits[(n + 1) \div 2][2 - (n % 2)]], conf[(n + 1) \div 2])]

\* regions.reduce((sum, r) => sum + r.confidence, 0)
RECURSIVE SumConfidence(_)
SumConfidence(regions) ==
    IF regions = <<>> THEN FZero
    ELSE FAdd(SumConfidence(SubSeq(regions, 1, Len(regions) - 1)),
              regions[Len(regions)].confidence)

MeanConfidence(regions) == FDivInt(SumConfidence(regions), Len(regions))

detectCopyMove(img) ==
    LET regions == CmLoops(ExtractBlocks(img))
    IN  [status |-> "ok", regions |-> regions,
         confidence |-> IF Len(regions) > 0 THEN MeanConfidence(regions) ELSE FZero]

----------------------------------------------------------------------------
(* calculateOverallConfidence.  The metadata argument is absent (null or   *)
(* undefined) or an object with exifData (here: whether it is truthy) and  *)
(* warnings (here: its length).                                            *)

NoMetadata == [present |-> FALSE]
Metadata(exifData, warnings) ==
    [present |-> TRUE, exifData |-> exifData, warnings |-> warnings]

AggElaFactor(acc, regions) ==
    IF Len(regions) > 0
    THEN [confidence |-> FAdd(acc.confidence, MeanConfidence(regions)),
          factors |-> acc.factors + 1]
    ELSE acc

\* mutant of AggCopyMoveFactor: the factors++ is missing
AggCopyMoveFactorNoCount(acc, cmConfidence) ==
    IF FLess(FZero, cmConfidence)
    THEN [acc EXCEPT !.confidence = FAdd(acc.confidence, cmConfidence)]
    ELSE acc

AggCopyMoveFactor(acc, cmConfidence) ==
    IF FLess(FZero, cmConfidence)
    THEN [confidence |-> FAdd(acc.confidence, cmConfidence),
          factors |-> acc.factors + 1]
    ELSE acc

\* mutant of MetadataConfidence: the 0.7 for missing EXIF data is missing
MetadataConfidenceNoExifCut(metadata) ==
    IF metadata.warnings > 0
    THEN FMul(FOne, FSub(FOne, FMul(FromInt(metadata.warnings), FTenth)))
    ELSE FOne

MetadataConfidence(metadata) ==
    LET c1 == IF ~metadata.exifData THEN FMul(FOne, FSevenTenths) ELSE FOne
    IN  IF metadata.warnings > 0
        THEN FMul(c1, FSub(FOne, FMul(FromInt(metadata.warnings), FTenth)))
        ELSE c1

\* mutant of AggMetadataFactor: the metadata factor is left out
AggMetadataFactorSkipped(acc, metadata) == acc

AggMetadataFactor(acc, metadata) ==
    IF metadata.present
    THEN [confidence |-> FAdd(acc.confidence, MetadataConfidence(metadata)),
          factors |-> acc.factors + 1]
    ELSE acc

calculateOverallConfidence(elaRegions, cmConfidence, metadata) ==
    LET acc == AggMetadataFactor(
                   AggCopyMoveFactor(
                       AggElaFactor([confidence |-> FZero, factors |-> 0], elaRegions),
                       cmConfidence),
                   metadata)
    IN  IF acc.factors > 0
        THEN FMul(FDivInt(acc.confidence, acc.factors), FHundred)
        ELSE FZero


----------------------------------------------------------------------------
(* State.                                                                  *)
(*   call, out        one direct call of an engine function and what it    *)
(*                    returned (EngineSpec)                                *)
(*   loading, compareMode, primaryImage, secondaryImage                    *)
(*                    the state of the App component (useState)            *)
(*   run              the handleAnalysis in flight: where it is suspended, *)
(*                    the values its closure captured when the button was  *)
(*                    clicked, and the locals of the analyzeImage it       *)
(*                    awaits                                               *)

VARIABLES call, out, loading, compareMode, primaryImage, secondaryImage, run

engineVars == <<call, out>>
appVars == <<loading, compareMode, primaryImage, secondaryImage, run>>
vars == <<call, out, loading, compareMode, primaryImage, secondaryImage, run>>

----------------------------------------------------------------------------
(* Files.  A dropped file is known by its name; FileOf gives its name and  *)
(* what the browser and exifr find in it: whether it decodes as an image,  *)
(* the                                                                     *)
(* decoded picture, the EXIF object exifr.parse resolves to (absent fields *)
(* are 0 or FALSE, all falsy) or that it rejects, the error the JPEG round *)
(* trip leaves and whether that round trip gives an image at all.          *)

NoFile == "(none)"
NoExif == [present |-> FALSE]
Exif(modify, create, make, w, h) ==
    [present |-> TRUE, ModifyDate |-> modify, CreateDate |-> create, Make |-> make,
     ImageWidth |-> w, ImageHeight |-> h]

Picture(w, h, content) == [width |-> w, height |-> h, content |-> content]

FileNames == {"photo.jpg", "scan.png", "broken.gif", "huge.jpg"}

FileOf(name) ==
    CASE name = "photo.jpg" ->
            [name |-> name, type |-> "image/jpeg", size |-> 2048, decodable |-> TRUE,
             img |-> Picture(33, 17, "gradient"),
             exifThrows |-> FALSE, exif |-> Exif(20, 10, TRUE, 33, 17),
             err |-> [kind |-> "uniform", level |-> 28], oracleOk |-> TRUE]
      [] name = "scan.png" ->
            [name |-> name, type |-> "image/png", size |-> 1536, decodable |-> TRUE,
             img |-> Picture(97, 65, "solid"),
             exifThrows |-> FALSE, exif |-> NoExif,
             err |-> [kind |-> "uniform", level |-> 0], oracleOk |-> TRUE]
      [] name = "broken.gif" ->
            [name |-> name, type |-> "image/gif", size |-> 0, decodable |-> FALSE,
             img |-> Picture(0, 0, "solid"),
             exifThrows |-> TRUE, exif |-> NoExif,
             err |-> [kind |-> "uniform", level |-> 0], oracleOk |-> FALSE]
      [] name = "huge.jpg" ->
            [name |-> name, type |-> "image/jpeg", size |-> 1048576, decodable |-> TRUE,
             img |-> Picture(97, 65, "solid"),
             exifThrows |-> FALSE, exif |-> Exif(10, 20, TRUE, 97, 65),
             err |-> [kind |-> "uniform", level |-> 0], oracleOk |-> FALSE]

----------------------------------------------------------------------------
(* analyzeImage                                                            *)

\* formatFileSize: the value in hundredths and the unit; the sizes of the
\* files above are whole numbers of their unit or halves of it
RECURSIVE SizeUnit(_)
SizeUnit(bytes) == IF bytes < 1024 THEN 0 ELSE 1 + SizeUnit(bytes \div 1024)

formatFileSize(bytes) ==
    IF bytes = 0 THEN <<0, "Bytes">>
    ELSE LET i == SizeUnit(bytes)
         IN  <<(bytes * 100) \div (1024 ^ i), <<"Bytes", "KB", "MB", "GB">>[i + 1]>>

NoAnalysis == [fileName |-> NoFile]

\* the warning checks after the two detectors
Warnings(file) ==
    LET exifData == file.exif
        w1 == IF ~exifData.present THEN <<"No EXIF metadata found">> ELSE <<>>
        w2 == IF exifData.present /\ exifData.ModifyDate # 0 /\ exifData.CreateDate # 0
                 /\ exifData.ModifyDate < exifData.CreateDate
              THEN <<"Modification date is earlier than creation date">> ELSE <<>>
        w3 == IF file.type # "image/jpeg" /\ exifData.present /\ exifData.Make
              THEN <<"Non-JPEG image contains camera EXIF data">> ELSE <<>>
        w4 == IF exifData.present /\ exifData.ImageWidth # 0 /\ exifData.ImageHeight # 0
                 /\ (exifData.ImageWidth # file.img.width
                        \/ exifData.ImageHeight # file.img.height)
              THEN <<"Image dimensions do not match EXIF data">> ELSE <<>>
    IN  w1 \o w2 \o w3 \o w4

\* what the try block returns once both detectors have returned
AnalysisResult(file, elaResults, copyMoveResults) ==
    LET warnings == Warnings(file)
    IN  [fileName   |-> file.name,
         fileSize   |-> formatFileSize(file.size),
         dimensions |-> <<file.img.width, file.img.height>>,
         mimeType   |-> file.type,
         exifData   |-> file.exif,
         warnings   |-> warnings,
         regions    |-> elaResults.regions \o copyMoveResults.regions,
         confidence |-> calculateOverallConfidence(
                            elaResults.regions, copyMoveResults.confidence,
                            Metadata(file.exif.present, Len(warnings)))]

\* what the catch block returns
AnalysisFailed(file) ==
    [fileName   |-> file.name,
     fileSize   |-> formatFileSize(file.size),
     dimensions |-> "Unknown",
     mimeType   |-> file.type,
     exifData   |-> NoExif,
     warnings   |-> <<"Error analyzing image metadata">>,
     regions    |-> <<>>,
     confidence |-> FZero]

\* from the resolution of performErrorLevelAnalysis to the return: nothing
\* later in analyzeImage waits for an event
AnalysisAfterEla(file, elaResults) ==
    IF elaResults.status = "error"
    THEN AnalysisFailed(file)
    ELSE AnalysisResult(file, elaResults, detectCopyMove(file.img))

\* analyzeImage as a whole, for a file whose image loads
analyzeImage(file) ==
    IF file.img.width = 0 \/ file.img.height = 0 \/ file.exifThrows
    THEN AnalysisFailed(file)
    ELSE AnalysisAfterEla(file,
             performErrorLevelAnalysis(file.img, file.err, file.oracleOk))

\* analyzeImage from the start of performErrorLevelAnalysis on, for every
\* file: a function of the file, evaluated once
AnalysisOnceDecoded ==
    [name \in FileNames |->
        AnalysisAfterEla(FileOf(name),
            performErrorLevelAnalysis(FileOf(name).img, FileOf(name).err,
                                      FileOf(name).oracleOk))]

----------------------------------------------------------------------------
(* The App component: the drop zones, the compare toggle, handleAnalysis.  *)
(* An action is one task of the event loop: a handler, or the part of      *)
(* handleAnalysis between two events it waits for (the image decoding,     *)
(* exifr's read of the file, the decoding of the recompressed image).      *)

Idle == [pc |-> "idle"]

Slot(file, analysis) == [file |-> file, preview |-> file, analysis |-> analysis]
EmptySlot == [file |-> NoFile, preview |-> "", analysis |-> NoAnalysis]

AppInit ==
    /\ loading = FALSE
    /\ compareMode = FALSE
    /\ primaryImage = EmptySlot
    /\ secondaryImage = EmptySlot
    /\ run = Idle

Init ==
    /\ AppInit
    /\ call = [fn |-> "none"]
    /\ out = [status |-> "idle"]

onDropPrimary(file) ==
    /\ primaryImage' = Slot(file, NoAnalysis)
    /\ UNCHANGED <<loading, compareMode, secondaryImage, run, engineVars>>

\* the second drop zone is rendered in compare mode only
onDropSecondary(file) ==
    /\ compareMode
    /\ secondaryImage' = Slot(file, NoAnalysis)
    /\ UNCHANGED <<loading, compareMode, primaryImage, run, engineVars>>

toggleCompareMode ==
    /\ compareMode' = ~compareMode
    /\ secondaryImage' = IF ~compareMode THEN EmptySlot ELSE secondaryImage
    /\ UNCHANGED <<loading, primaryImage, run, engineVars>>

\* analyzeImage up to its first await: the image of the file is loading
Analyzing(slot, name, closure) ==
    [pc |-> "decode", slot |-> slot, file |-> name, closure |-> closure]

\* the button is disabled while loading, without a primary file, and in
\* compare mode without a secondary file
handleAnalysis ==
    /\ ~loading
    /\ primaryImage.file # NoFile
    /\ compareMode => secondaryImage.file # NoFile
    /\ loading' = TRUE
    /\ run' = Analyzing("primary", primaryImage.file,
                        [primaryFile |-> primaryImage.file,
                         compareMode |-> compareMode,
                         secondaryFile |-> secondaryImage.file])
    /\ UNCHANGED <<compareMode, primaryImage, secondaryImage, engineVars>>

\* handleAnalysis from the return of analyzeImage on: the functional update
\* of the slot, then the analysis of the secondary file the closure holds,
\* or the finally block
Resume(analysis) ==
    /\ primaryImage' = IF run.slot = "primary"
                       THEN [primaryImage EXCEPT !.analysis = analysis]
                       ELSE primaryImage
    /\ secondaryImage' = IF run.slot = "secondary"
                         THEN [secondaryImage EXCEPT !.analysis = analysis]
                         ELSE secondaryImage
    /\ IF run.slot = "primary" /\ run.closure.compareMode
              /\ run.closure.secondaryFile # NoFile
       THEN /\ run' = Analyzing("secondary", run.closure.secondaryFile, run.closure)
            /\ UNCHANGED loading
       ELSE /\ run' = Idle
            /\ loading' = FALSE
    /\ UNCHANGED <<compareMode, engineVars>>

\* img.onload: only an image that decodes fires it, and nothing listens for
\* the error event.  getImageData throws for a canvas without pixels.
imgOnload ==
    /\ run.pc = "decode"
    /\ FileOf(run.file).decodable
    /\ IF FileOf(run.file).img.width = 0 \/ FileOf(run.file).img.height = 0
       THEN Resume(AnalysisFailed(FileOf(run.file)))
       ELSE /\ run' = [run EXCEPT !.pc = "exif"]
            /\ UNCHANGED <<loading, compareMode, primaryImage, secondaryImage, engineVars>>

\* exifr.parse settles; performErrorLevelAnalysis starts and waits for the
\* recompressed image
exifrSettled ==
    /\ run.pc = "exif"
    /\ IF FileOf(run.file).exifThrows
       THEN Resume(AnalysisFailed(FileOf(run.file)))
       ELSE /\ run' = [run EXCEPT !.pc = "ela"]
            /\ UNCHANGED <<loading, compareMode, primaryImage, secondaryImage, engineVars>>

\* the recompressed image loads or fails to; the rest of analyzeImage runs
recompressedSettled ==
    /\ run.pc = "ela"
    /\ Resume(AnalysisOnceDecoded[run.file])

Next ==
    \/ \E file \in FileNames : onDropPrimary(file)
    \/ \E file \in FileNames : onDropSecondary(file)
    \/ toggleCompareMode
    \/ handleAnalysis
    \/ imgOnload
    \/ exifrSettled
    \/ recompressedSettled

Spec == Init /\ [][Next]_vars

\* the event loop delivers every event that is due
FairSpec ==
    /\ Spec
    /\ WF_vars(imgOnload)
    /\ WF_vars(exifrSettled)
    /\ WF_vars(recompressedSettled)

----------------------------------------------------------------------------
(* The engine called directly: every call of performErrorLevelAnalysis,    *)
(* detectCopyMove and calculateOverallConfidence on a bounded set of       *)
(* arguments (EngineSpec), and every call of analyzeImage on a bounded set *)
(* of files (AnalyzeSpec).                                                 *)

MaxTilesW == 6
MaxTilesH == 4
MaxRegions == 2
ConfSteps == 2
MaxWarnings == 11

\* widths and heights: the multiples of the cell size and one pixel more
Extents(maxTiles) == {ElaBlockSize * k + r : k \in 0..maxTiles, r \in {0, 1}}

Sizes == Extents(MaxTilesW) \X Extents(MaxTilesH)

ElaCalls ==
    {[fn |-> "ela", img |-> [width |-> s[1], height |-> s[2], content |-> "solid"],
      err |-> e, oracleOk |-> TRUE] : s \in Sizes, e \in ErrPatterns}
    \cup
    {[fn |-> "ela", img |-> [width |-> s[1], height |-> s[2], content |-> "solid"],
      err |-> [kind |-> "uniform", level |-> 0], oracleOk |-> FALSE] : s \in Sizes}

CmCalls ==
    {[fn |-> "cm", img |-> [width |-> s[1], height |-> s[2], content |-> c]] :
        s \in Sizes, c \in Contents}

ConfLevels == {FDivInt(FromInt(k), ConfSteps) : k \in 0..ConfSteps}

RegionLists ==
    UNION {[1..n -> {ElaRegion(0, 0, c) : c \in ConfLevels}] : n \in 0..MaxRegions}

MetadataArgs ==
    {NoMetadata} \cup {Metadata(x, w) : x \in BOOLEAN, w \in 0..MaxWarnings}

AggCalls ==
    {[fn |-> "agg", regions |-> r, cmConfidence |-> c, metadata |-> m] :
        r \in RegionLists, c \in ConfLevels, m \in MetadataArgs}

\* pictures without pixels, smaller than a copy-move block, and of six
\* copy-move blocks
AnalyzePictures ==
    {Picture(s[1], s[2], c) :
        s \in {<<0, 0>>, <<2 * ElaBlockSize + 1, ElaBlockSize + 1>>,
                <<ElaBlockSize * MaxTilesW + 1, ElaBlockSize * MaxTilesH + 1>>},
        c \in {"solid", "gradient", "speck"}}

\* what exifr.parse resolves to: nothing, or an object with or without
\* dates (in either order), a camera make, and the dimensions of the
\* picture or others
ExifObjects(img) ==
    {NoExif} \cup
    {Exif(d[1], d[2], make, wh[1], wh[2]) :
        d \in {<<0, 0>>, <<1, 2>>, <<2, 1>>}, make \in BOOLEAN,
        wh \in {<<0, 0>>, <<img.width, img.height>>, <<img.width + 1, img.height>>}}

AnalyzeFiles ==
    UNION {
        {[name |-> "upload", type |-> t, size |-> 2048, decodable |-> TRUE,
          img |-> p, exifThrows |-> FALSE, exif |-> x, err |-> e, oracleOk |-> TRUE] :
             t \in {"image/jpeg", "image/png"}, x \in ExifObjects(p), e \in ErrPatterns}
        \cup
        {[name |-> "upload", type |-> "image/jpeg", size |-> 2048, decodable |-> TRUE,
          img |-> p, exifThrows |-> th, exif |-> NoExif,
          err |-> [kind |-> "uniform", level |-> 765], oracleOk |-> ok] :
             th \in BOOLEAN, ok \in BOOLEAN}
        : p \in AnalyzePictures}

AnalyzeCalls == {[fn |-> "analyze", file |-> f] : f \in AnalyzeFiles}

EngineInit ==
    /\ call \in ElaCalls \cup CmCalls \cup AggCalls
    /\ out = [status |-> "pending"]
    /\ AppInit

CallErrorLevelAnalysis ==
    /\ call.fn = "ela"
    /\ out.status = "pending"
    /\ out' = performErrorLevelAnalysis(call.img, call.err, call.oracleOk)
    /\ UNCHANGED <<call, appVars>>

\* blocks: the local of that name when the function returns
CallCopyMove ==
    /\ call.fn = "cm"
    /\ out.status = "pending"
    /\ LET res == detectCopyMove(call.img)
       IN  out' = [status |-> res.status, regions |-> res.regions,
                   confidence |-> res.confidence, blocks |-> ExtractBlocks(call.img)]
    /\ UNCHANGED <<call, appVars>>

CallOverallConfidence ==
    /\ call.fn = "agg"
    /\ out.status = "pending"
    /\ out' = [status |-> "ok",
               value |-> calculateOverallConfidence(call.regions, call.cmConfidence,
                                                    call.metadata)]
    /\ UNCHANGED <<call, appVars>>

EngineNext == CallErrorLevelAnalysis \/ CallCopyMove \/ CallOverallConfidence

EngineSpec == EngineInit /\ [][EngineNext]_vars

AnalyzeInit ==
    /\ call \in AnalyzeCalls
    /\ out = [status |-> "pending"]
    /\ AppInit

CallAnalyzeImage ==
    /\ call.fn = "analyze"
    /\ out.status = "pending"
    /\ out' = [status |-> "ok", analysis |-> analyzeImage(call.file)]
    /\ UNCHANGED <<call, appVars>>

AnalyzeNext == CallAnalyzeImage

AnalyzeSpec == AnalyzeInit /\ [][AnalyzeNext]_vars

----------------------------------------------------------------------------
(* Properties.                                                             *)

ElaReturned == call.fn = "ela" /\ out.status = "ok"
CmReturned == call.fn = "cm" /\ out.status = "ok"
AggReturned == call.fn = "agg" /\ out.status = "ok"

InsideImage(r, img) ==
    /\ 0 <= r.x
    /\ 0 <= r.y
    /\ r.x + r.width <= img.width
    /\ r.y + r.height <= img.height

\* C1: every region performErrorLevelAnalysis and detectCopyMove emit lies
\* inside the image, whatever its width and height
C1_RegionsInsideImage ==
    (ElaReturned \/ CmReturned) =>
        \A i \in DOMAIN out.regions : InsideImage(out.regions[i], call.img)

\* C2: calculateOverallConfidence returns a value in [0, 100] for region
\* confidences and a copy-move confidence in [0, 1], any hasMetadata and
\* any warning count
C2_AggregateInRange ==
    (AggReturned /\ call.metadata.present) =>
        FLeq(FZero, out.value) /\ FLeq(out.value, FHundred)

\* the slots that hold an analysis
Analysed == {s \in {primaryImage, secondaryImage} : s.analysis # NoAnalysis}

\* a file of which only the recompression fails
ElaAloneFails(name) ==
    /\ FileOf(name).decodable
    /\ FileOf(name).img.width > 0 /\ FileOf(name).img.height > 0
    /\ ~FileOf(name).exifThrows
    /\ ~FileOf(name).oracleOk

\* C3: when performErrorLevelAnalysis fails, detectCopyMove still runs on
\* the image and its regions and confidence reach the result, the failed
\* analysis counting as an empty region list for the aggregator
C3_ElaFailureIsolated ==
    \A s \in Analysed :
        ElaAloneFails(s.analysis.fileName) =>
            s.analysis = AnalysisResult(FileOf(s.analysis.fileName), [regions |-> <<>>],
                                        detectCopyMove(FileOf(s.analysis.fileName).img))

\* the origins of the full blocks of the grid that fit in the image
FullBlockOrigins(img) ==
    {<<x, y>> \in (0..img.width) \X (0..img.height) :
        /\ x % CmBlockSize = 0
        /\ y % CmBlockSize = 0
        /\ x + CmBlockSize <= img.width
        /\ y + CmBlockSize <= img.height}

\* C4: detectCopyMove extracts exactly one block for every grid origin
\* whose block fits in the image; only partial blocks are dropped
C4_OneBlockPerFullGridCell ==
    CmReturned =>
        /\ {<<out.blocks[i].x, out.blocks[i].y>> : i \in DOMAIN out.blocks}
               = FullBlockOrigins(call.img)
        /\ Len(out.blocks) = Cardinality(FullBlockOrigins(call.img))

RECURSIVE SumNumbers(_)
SumNumbers(numbers) ==
    IF numbers = <<>> THEN FZero
    ELSE FAdd(SumNumbers(SubSeq(numbers, 1, Len(numbers) - 1)), numbers[Len(numbers)])

\* (0.7 if metadata is absent else 1) * ((1 - 0.1 * warningCount) if
\* warningCount > 0 else 1)
StatedMetadataFactor(hasMetadata, warningCount) ==
    FMul(IF hasMetadata THEN FOne ELSE FSevenTenths,
         IF warningCount > 0
         THEN FSub(FOne, FMul(FTenth, FromInt(warningCount)))
         ELSE FOne)

\* the factors the statement includes, the metadata factor when withMetadata
StatedFactors(c, withMetadata) ==
    (IF c.regions # <<>>
     THEN << FDivInt(SumNumbers([i \in DOMAIN c.regions |-> c.regions[i].confidence]),
                     Len(c.regions)) >>
     ELSE <<>>)
    \o (IF FLess(FZero, c.cmConfidence) THEN <<c.cmConfidence>> ELSE <<>>)
    \o (IF withMetadata
        THEN << IF c.metadata.present
                THEN StatedMetadataFactor(c.metadata.exifData, c.metadata.warnings)
                ELSE StatedMetadataFactor(FALSE, 0) >>
        ELSE <<>>)

\* 100 * (sum of the factors) / (number of factors), 0 without factors
StatedMean(factors) ==
    IF factors = <<>> THEN FZero
    ELSE FMul(FHundred, FDivInt(SumNumbers(factors), Len(factors)))

\* C5 as stated: the result is 100 times the mean of the included factors,
\* the metadata factor being included in every call
C5_MetadataFactorAlwaysIncluded ==
    AggReturned => out.value = StatedMean(StatedFactors(call, TRUE))

\* C5, amended: the result is 100 times the mean of the included factors;
\* the mean region confidence is included iff there are regions, the
\* copy-move confidence iff it is > 0, and the metadata factor iff a
\* metadata object is passed; without any factor the result is 0
C5_MeanOfIncludedFactors ==
    AggReturned => out.value = StatedMean(StatedFactors(call, call.metadata.present))

C5_Witness ==
    /\ AggReturned
    /\ Len(call.regions) = 2
    /\ call.regions[1].confidence # call.regions[2].confidence
    /\ FLess(FZero, call.cmConfidence)
    /\ call.metadata = Metadata(FALSE, 3)

OnlyMetadata(hasMetadata, warningCount) ==
    /\ AggReturned
    /\ call.regions = <<>>
    /\ call.cmConfidence = FZero
    /\ call.metadata = Metadata(hasMetadata, warningCount)

\* C6 as stated: without regions and with copy-move confidence 0 the
\* result is exactly 100 for hasMetadata = true, warningCount = 0 and
\* exactly 49 for hasMetadata = false, warningCount = 3
C6_ExactlyOneHundredAndFortyNine ==
    /\ OnlyMetadata(TRUE, 0) => out.value = FHundred
    /\ OnlyMetadata(FALSE, 3) => out.value = FromInt(49)

\* 2^k
FPow2(k) == [neg |-> FALSE, m |-> <<1>>, e |-> k]

\* C6, amended: without regions and with copy-move confidence 0 the result
\* is the metadata factor times 100 in binary64: exactly 100 for
\* hasMetadata = true, warningCount = 0, and 48.99999999999999 (49 - 2^-47,
\* not 49) for hasMetadata = false, warningCount = 3
C6_OneHundredAndJustUnderFortyNine ==
    /\ OnlyMetadata(TRUE, 0) => out.value = FHundred
    /\ OnlyMetadata(FALSE, 3) =>
           /\ out.value = FSub(FromInt(49), FPow2(-47))
           /\ FLess(out.value, FromInt(49))

C6_Witness == OnlyMetadata(FALSE, 3)

\* C7: the heatmap has ceil(height / 16) rows of ceil(width / 16) cells,
\* for every image size, and every cell is written by exactly one
\* iteration of the block loops
C7_HeatmapShape ==
    ElaReturned =>
        LET rows == Len(out.heatmap)
            cols == IF rows = 0 THEN 0 ELSE Len(out.heatmap[1])
        IN  /\ ElaBlockSize * (rows - 1) < call.img.height
            /\ call.img.height <= ElaBlockSize * rows
            /\ ElaBlockSize * (cols - 1) < call.img.width
            /\ call.img.width <= ElaBlockSize * cols
            /\ \A r \in 1..rows : Len(out.heatmap[r]) = cols
            /\ \A i \in DOMAIN out.writes :
                   out.writes[i] \in (0..(rows - 1)) \X (0..(cols - 1))
            /\ \A r \in 0..(rows - 1), c \in 0..(cols - 1) :
                   Cardinality({i \in DOMAIN out.writes : out.writes[i] = <<r, c>>}) = 1

C7_Witness ==
    /\ ElaReturned
    /\ call.img.width > ElaBlockSize /\ call.img.width % ElaBlockSize # 0
    /\ call.img.height > ElaBlockSize /\ call.img.height % ElaBlockSize # 0
    /\ Len(out.writes) = 6

\* C8: an image of zero width or zero height is rejected with an error by
\* both detectors; neither returns a normal result for it
C8_EmptyImageRejected ==
    (call.fn \in {"ela", "cm"} /\ out.status # "pending"
        /\ (call.img.width = 0 \/ call.img.height = 0))
    => out.status = "error"

\* C9: an analysis held by a slot was computed from the file the slot holds
C9_AnalysisOfCurrentFile ==
    \A s \in Analysed : s.analysis.fileName = s.file

\* C10: every handleAnalysis run ends: loading, once true, becomes false
C10_LoadingEnds == loading ~> ~loading

\* the pairs i < j of blocks whose summed R, G, B absolute difference per
\* pixel is below 5 and whose origins are more than 2 * blockSize apart
StatedPairs(blocks) ==
    {p \in (DOMAIN blocks) \X (DOMAIN blocks) :
        /\ p[1] < p[2]
        /\ BlockDiffSum(blocks[p[1]].data, blocks[p[2]].data)
               < CmThreshold * CmBlockPixels
        /\ (blocks[p[1]].x - blocks[p[2]].x) ^ 2 + (blocks[p[1]].y - blocks[p[2]].y) ^ 2
               > (2 * CmBlockSize) ^ 2}

\* max(0, 1 - avgDiff / 255) of a pair
StatedPairConfidence(blocks, p) ==
    LET avgDiff == FDivInt(FromInt(BlockDiffSum(blocks[p[1]].data, blocks[p[2]].data)),
                           CmBlockPixels)
    IN  FMax(FZero, FSub(FOne, FDivInt(avgDiff, ByteMax)))

\* the region of block p[k] of pair p
StatedPairRegion(blocks, p, k) ==
    [x |-> blocks[p[k]].x, y |-> blocks[p[k]].y,
     width |-> CmBlockSize, height |-> CmBlockSize,
     confidence |-> StatedPairConfidence(blocks, p)]

\* C11: detectCopyMove emits regions for a pair i < j of extracted blocks
\* iff their difference per pixel is < 5 and their origins are more than
\* 2 * blockSize apart; such a pair emits exactly two regions, one at each
\* origin, blockSize x blockSize, both with confidence max(0, 1 -
\* avgDiff / 255); the overall confidence is the mean of the confidences
\* of the emitted regions, 0 without regions
C11_PairsEmitTwoRegions ==
    CmReturned =>
        LET blocks == out.blocks
            emits  == StatedPairs(blocks) \X {1, 2}
            Of(e)  == StatedPairRegion(blocks, e[1], e[2])
        IN  /\ Len(out.regions) = Cardinality(emits)
            /\ \A r \in {Of(e) : e \in emits}
                        \cup {out.regions[n] : n \in DOMAIN out.regions} :
                   Cardinality({n \in DOMAIN out.regions : out.regions[n] = r})
                       = Cardinality({e \in emits : Of(e) = r})
            /\ out.confidence =
                   IF out.regions = <<>> THEN FZero
                   ELSE FDivInt(SumNumbers([n \in DOMAIN out.regions |->
                                               out.regions[n].confidence]),
                                Len(out.regions))

\* blocks one pixel short of the threshold apart are matched, blocks at it
\* are not, and neither are equal blocks exactly 2 * blockSize apart
C11_Witness ==
    /\ CmReturned
    /\ call.img.content = "speck"
    /\ Len(out.blocks) = 6
    /\ Len(out.regions) = 2
    /\ FLess(out.confidence, FOne)
    /\ \E i, j \in DOMAIN out.blocks :
           BlockDiffSum(out.blocks[i].data, out.blocks[j].data)
               = CmThreshold * CmBlockPixels - 1

\* the pixels of the cell in heatmap row r, column c (from 0) that lie
\* inside the image
StatedPixelsInside(img, r, c) ==
    Cardinality({px \in (ElaBlockSize * c)..(ElaBlockSize * c + ElaBlockSize - 1) :
                    px < img.width})
        * Cardinality({py \in (ElaBlockSize * r)..(ElaBlockSize * r + ElaBlockSize - 1) :
                          py < img.height})

\* min(avgDiff / 30, 1), avgDiff the summed difference of the cell divided
\* by (pixelCount * 3)
StatedNormalizedDiff(c, row, col) ==
    LET avgDiff == FDivInt(FromInt(ElaDiffSum(c.img, c.err, ElaBlockSize * col,
                                              ElaBlockSize * row)),
                           StatedPixelsInside(c.img, row, col) * 3)
    IN  FMin(FDivInt(avgDiff, ElaSaturation), FOne)

\* the cells of the analysis grid, as <<row, column>> from 0
StatedCells(img) ==
    {rc \in (0..img.height) \X (0..img.width) :
        ElaBlockSize * rc[1] < img.height /\ ElaBlockSize * rc[2] < img.width}

\* C12: performErrorLevelAnalysis stores min(avgDiff / 30, 1) in the
\* heatmap for every cell, avgDiff being the summed difference of the cell
\* divided by (pixelCount * 3) over the pixels inside the image, and emits
\* a region at the cell, with that value as confidence, iff it is > 0.3;
\* for a pixel-identical recompression there is no region and the heatmap
\* is all zero
C12_HeatmapAndRegionsPerCell ==
    ElaReturned =>
        LET cells == StatedCells(call.img)
            hot   == {rc \in cells :
                         FLess(FThreeTenths, StatedNormalizedDiff(call, rc[1], rc[2]))}
            At(n) == <<out.regions[n].y \div ElaBlockSize,
                       out.regions[n].x \div ElaBlockSize>>
        IN  /\ \A rc \in cells :
                   out.heatmap[rc[1] + 1][rc[2] + 1]
                       = StatedNormalizedDiff(call, rc[1], rc[2])
            /\ Len(out.regions) = Cardinality(hot)
            /\ \A rc \in hot : \E n \in DOMAIN out.regions :
                   /\ out.regions[n].x = ElaBlockSize * rc[2]
                   /\ out.regions[n].y = ElaBlockSize * rc[1]
                   /\ out.regions[n].confidence
                          = StatedNormalizedDiff(call, rc[1], rc[2])
            /\ call.err = [kind |-> "uniform", level |-> 0] =>
                   /\ out.regions = <<>>
                   /\ \A r \in DOMAIN out.heatmap : \A c \in DOMAIN out.heatmap[r] :
                          out.heatmap[r][c] = FZero

\* one wrong pixel per cell: the full cells stay under the threshold, the
\* cells cut by the right and bottom edges of the image are over it
C12_Witness ==
    /\ ElaReturned
    /\ call.err.kind = "dot"
    /\ call.img.width = 2 * ElaBlockSize + 1
    /\ call.img.height = 2 * ElaBlockSize + 1
    /\ Len(out.regions) = 5
    /\ out.heatmap[1][1] # FZero
    /\ FLess(out.heatmap[1][1], FThreeTenths)
    /\ out.heatmap[3][3] = FOne

AnalyzeReturned == call.fn = "analyze" /\ out.status = "ok"

\* the files on which the try block of analyzeImage throws
Throws(file) ==
    \/ file.img.width = 0
    \/ file.img.height = 0
    \/ file.exifThrows
    \/ ~file.oracleOk

\* C13: an analysis analyzeImage completes without an exception has at
\* most 3 warnings (exactly 1 without EXIF data), a metadata factor of at
\* least 0.63, every other included factor above 0.3, and a confidence
\* above 30 and at most 100; a confidence of 0 comes from the catch block
\* only
C13_ConfidenceAboveThirty ==
    AnalyzeReturned =>
        LET file == call.file
            a    == out.analysis
            ela  == performErrorLevelAnalysis(file.img, file.err, file.oracleOk)
            cm   == detectCopyMove(file.img)
        IN  /\ ~Throws(file) =>
                   /\ Len(a.warnings) <= 3
                   /\ ~file.exif.present => Len(a.warnings) = 1
                   /\ FLeq(FDivInt(FromInt(63), 100),
                           MetadataConfidence(Metadata(file.exif.present, Len(a.warnings))))
                   /\ ela.regions # <<>> =>
                          FLess(FThreeTenths, MeanConfidence(ela.regions))
                   /\ FLess(FZero, cm.confidence) => FLess(FThreeTenths, cm.confidence)
                   /\ FLess(FromInt(30), a.confidence)
                   /\ FLeq(a.confidence, FHundred)
            /\ a.confidence = FZero =>
                   /\ Throws(file)
                   /\ a = AnalysisFailed(file)

\* three warnings, and all three factors included
C13_Witness ==
    /\ AnalyzeReturned
    /\ ~Throws(call.file)
    /\ Len(out.analysis.warnings) = 3
    /\ \E n \in DOMAIN out.analysis.regions :
           out.analysis.regions[n].width = ElaBlockSize
    /\ \E n \in DOMAIN out.analysis.regions :
           out.analysis.regions[n].width = CmBlockSize
    /\ FLess(out.analysis.confidence, FromInt(100))

\* 250 / 255
StatedFloor == FDivInt(FromInt(ByteMax - CmThreshold), ByteMax)

\* C14: every region detectCopyMove emits has a confidence above 250 / 255
\* and at most 1; the overall confidence is 0 without regions and above
\* 250 / 255 otherwise; the number of regions is even
C14_CopyMoveConfidenceRange ==
    CmReturned =>
        /\ \A n \in DOMAIN out.regions :
               /\ FLess(StatedFloor, out.regions[n].confidence)
               /\ FLeq(out.regions[n].confidence, FOne)
        /\ IF out.regions = <<>>
           THEN out.confidence = FZero
           ELSE FLess(StatedFloor, out.confidence)
        /\ Len(out.regions) % 2 = 0

\* two matched pairs of different confidence in one picture
C14_Witness ==
    /\ CmReturned
    /\ Len(out.regions) = 4
    /\ out.regions[1].confidence = FOne
    /\ FLess(out.regions[3].confidence, FOne)
    /\ FLess(out.confidence, FOne)
    /\ FLess(out.regions[3].confidence, out.confidence)

====
